---- MODULE Spec2Model ----
(***************************************************************************)
(* A model of the multi-producer single-consumer channel of src/lib.rs:    *)
(* Shared { inner: Mutex<Inner { queue, senders }>, available: Condvar }, *)
(* the Sender handles (clone / send / drop) and the single Receiver with   *)
(* its private prefetch buffer (recv / Iterator::next).                    *)
(*                                                                         *)
(* Every Sender handle is a process; the Receiver is a process.  A call is *)
(* split at the points where another thread can interleave: entering the   *)
(* call, acquiring the mutex, the critical section (ended by drop(inner)), *)
(* and what the call does after it released the mutex.                     *)
(* Option<T> is modelled as a sequence: None is << >>, Some(t) is <<t>>.   *)
(***************************************************************************)
EXTENDS Integers, Sequences, FiniteSets, TLC

\* ---- bounds of the model ------------------------------------------------
MaxHandles == 2   \* Sender handles that can ever exist (the original + clones)
MaxSends   == 3   \* send() calls over all handles
MaxRecvs   == 3   \* recv() calls

Handles == 1..MaxHandles

\* T is an unconstrained type parameter: no code of the channel looks at a
\* value, so the values only have to tell the send() calls apart.
Values  == 1..MaxSends

\* ---- Option<T> ------------------------------------------------------------
None    == << >>
Some(t) == <<t>>

\* ---- holders of Shared.inner (the Mutex) ----------------------------------
Free == 0          \* nobody holds the mutex; a handle h holds it as h
Rx   == -1         \* the Receiver holds the mutex

VARIABLES
  queue,        \* Inner.queue
  senders,      \* Inner.senders
  lock,         \* who holds Shared.inner
  buffer,       \* Receiver.buffer
  pc,           \* pc[h]: where Sender handle h is
  arg,          \* arg[h]: the argument t of the send() in progress on h
  rpc,          \* where the Receiver is
  called,       \* history: called[h] = the values h passed to send(), in program order
  appended,     \* history: the <<handle, value>> pairs pushed, in mutex order
  results,      \* history: what the recv() calls returned, in order
  oldestAtCall  \* history: Some(oldest undelivered value) when the recv() in
                \* progress was called, None if there was none

vars == <<queue, senders, lock, buffer, pc, arg, rpc,
          called, appended, results, oldestAtCall>>

history  == <<called, appended, results, oldestAtCall>>

\* ---- VecDeque operations --------------------------------------------------
\* a push at the wrong end of the queue
push_front(q, t) == <<t>> \o q

push_back(q, t) == Append(q, t)

pop_front(q) == IF q = << >> THEN None ELSE Some(Head(q))

rest(q) == IF q = << >> THEN << >> ELSE Tail(q)

\* ---- history helpers ------------------------------------------------------
RECURSIVE SumLen(_, _)
SumLen(f, S) ==
  IF S = {} THEN 0
  ELSE LET h == CHOOSE x \in S : TRUE IN Len(f[h]) + SumLen(f, S \ {h})

\* the values (not the None's) among the results, in order
RECURSIVE Vals(_)
Vals(rs) ==
  IF rs = << >> THEN << >>
  ELSE IF Head(rs) = None THEN Vals(Tail(rs))
       ELSE <<Head(rs)[1]>> \o Vals(Tail(rs))

AppendedVals == [i \in 1..Len(appended) |-> appended[i][2]]

IsPrefix(s, t) == Len(s) <= Len(t) /\ \A i \in 1..Len(s) : s[i] = t[i]

\* the oldest value pushed and not yet returned by recv()
OldestUndelivered ==
  IF Len(Vals(results)) < Len(appended)
  THEN Some(appended[Len(Vals(results)) + 1][2])
  ELSE None

Last(s) == s[Len(s)]

\* ---- channel() ------------------------------------------------------------
\* a channel() that does not count the handle it returns
InitNoSender ==
  /\ queue = << >>
  /\ senders = 0
  /\ lock = Free
  /\ buffer = << >>
  /\ pc = [h \in Handles |-> IF h = 1 THEN "idle" ELSE "unborn"]
  /\ arg = [h \in Handles |-> None]
  /\ rpc = "idle"
  /\ called = [h \in Handles |-> << >>]
  /\ appended = << >>
  /\ results = << >>
  /\ oldestAtCall = None

Init ==
  /\ queue = << >>
  /\ senders = 1
  /\ lock = Free
  /\ buffer = << >>
  /\ pc = [h \in Handles |-> IF h = 1 THEN "idle" ELSE "unborn"]
  /\ arg = [h \in Handles |-> None]
  /\ rpc = "idle"
  /\ called = [h \in Handles |-> << >>]
  /\ appended = << >>
  /\ results = << >>
  /\ oldestAtCall = None

\* ---- Condvar::notify_one --------------------------------------------------
\* a signal that reaches nobody
notify_lost(r) == r

\* wakes the Receiver if it is blocked in wait(); otherwise has no effect
notify_one(r) == IF r = "waiting" THEN "woken" ELSE r

\* ---- Sender::send ---------------------------------------------------------
\* the value the next send() call passes: the calls are numbered as they start
NextValue == SumLen(called, Handles) + 1

SendCall(h, t) ==
  /\ pc[h] = "idle"
  /\ SumLen(called, Handles) < MaxSends
  /\ pc' = [pc EXCEPT ![h] = "s_lock"]
  /\ arg' = [arg EXCEPT ![h] = Some(t)]
  /\ called' = [called EXCEPT ![h] = Append(@, t)]
  /\ UNCHANGED <<queue, senders, lock, buffer, rpc, appended, results, oldestAtCall>>

SendLock(h) ==
  /\ pc[h] = "s_lock"
  /\ lock = Free
  /\ lock' = h
  /\ pc' = [pc EXCEPT ![h] = "s_crit"]
  /\ UNCHANGED <<queue, senders, buffer, arg, rpc, history>>

\* a send() that gives up, queueing nothing, when the Receiver is gone
SendPushIfReceiver(h) ==
  /\ pc[h] = "s_crit"
  /\ lock = h
  /\ queue' = IF rpc = "gone" THEN queue ELSE push_back(queue, arg[h][1])
  /\ appended' = IF rpc = "gone" THEN appended ELSE Append(appended, <<h, arg[h][1]>>)
  /\ lock' = Free
  /\ pc' = [pc EXCEPT ![h] = "s_notify"]
  /\ arg' = [arg EXCEPT ![h] = None]
  /\ UNCHANGED <<senders, buffer, rpc, called, results, oldestAtCall>>

SendPush(h) ==
  /\ pc[h] = "s_crit"
  /\ lock = h
  /\ queue' = push_back(queue, arg[h][1])
  /\ appended' = Append(appended, <<h, arg[h][1]>>)
  /\ lock' = Free
  /\ pc' = [pc EXCEPT ![h] = "s_notify"]
  /\ arg' = [arg EXCEPT ![h] = None]
  /\ UNCHANGED <<senders, buffer, rpc, called, results, oldestAtCall>>

\* a send() that forgets to signal
SendNoNotify(h) ==
  /\ pc[h] = "s_notify"
  /\ pc' = [pc EXCEPT ![h] = "idle"]
  /\ UNCHANGED <<queue, senders, lock, buffer, arg, rpc, history>>

SendNotify(h) ==
  /\ pc[h] = "s_notify"
  /\ rpc' = notify_one(rpc)
  /\ pc' = [pc EXCEPT ![h] = "idle"]
  /\ UNCHANGED <<queue, senders, lock, buffer, arg, history>>

\* ---- Clone for Sender -----------------------------------------------------
\* the identity of the next handle constructed: the least one not yet used
NewHandle ==
  CHOOSE n \in Handles : pc[n] = "unborn" /\ \A m \in Handles : pc[m] = "unborn" => n <= m

\* a clone needs an identity left for the handle it will construct
CloneCall(h) ==
  /\ pc[h] = "idle"
  /\ Cardinality({n \in Handles : pc[n] = "unborn"})
       > Cardinality({g \in Handles : pc[g] \in {"c_lock", "c_crit", "c_ret"}})
  /\ pc' = [pc EXCEPT ![h] = "c_lock"]
  /\ UNCHANGED <<queue, senders, lock, buffer, arg, rpc, history>>

CloneLock(h) ==
  /\ pc[h] = "c_lock"
  /\ lock = Free
  /\ lock' = h
  /\ pc' = [pc EXCEPT ![h] = "c_crit"]
  /\ UNCHANGED <<queue, senders, buffer, arg, rpc, history>>

\* a clone() that forgets to count the new handle
CloneNoInc(h) ==
  /\ pc[h] = "c_crit"
  /\ lock = h
  /\ lock' = Free
  /\ pc' = [pc EXCEPT ![h] = "c_ret"]
  /\ UNCHANGED <<queue, senders, buffer, arg, rpc, history>>

CloneInc(h) ==
  /\ pc[h] = "c_crit"
  /\ lock = h
  /\ senders' = senders + 1
  /\ lock' = Free
  /\ pc' = [pc EXCEPT ![h] = "c_ret"]
  /\ UNCHANGED <<queue, buffer, arg, rpc, history>>

CloneReturn(h) ==
  /\ pc[h] = "c_ret"
  /\ pc' = [pc EXCEPT ![h] = "idle", ![NewHandle] = "idle"]
  /\ UNCHANGED <<queue, senders, lock, buffer, arg, rpc, history>>

\* ---- Drop for Sender ------------------------------------------------------
DropCall(h) ==
  /\ pc[h] = "idle"
  /\ pc' = [pc EXCEPT ![h] = "d_lock"]
  /\ UNCHANGED <<queue, senders, lock, buffer, arg, rpc, history>>

DropLock(h) ==
  /\ pc[h] = "d_lock"
  /\ lock = Free
  /\ lock' = h
  /\ pc' = [pc EXCEPT ![h] = "d_crit"]
  /\ UNCHANGED <<queue, senders, buffer, arg, rpc, history>>

\* a destructor that forgets to decrement
DropNoDec(h) ==
  /\ pc[h] = "d_crit"
  /\ lock = h
  /\ lock' = Free
  /\ pc' = [pc EXCEPT ![h] = "d_notify"]
  /\ UNCHANGED <<queue, senders, buffer, arg, rpc, history>>

DropDec(h) ==
  /\ pc[h] = "d_crit"
  /\ lock = h
  /\ senders' = senders - 1
  /\ lock' = Free
  /\ pc' = [pc EXCEPT ![h] = "d_notify"]
  /\ UNCHANGED <<queue, buffer, arg, rpc, history>>

\* a destructor that forgets to signal
DropNoNotify(h) ==
  /\ pc[h] = "d_notify"
  /\ pc' = [pc EXCEPT ![h] = "dropped"]
  /\ UNCHANGED <<queue, senders, lock, buffer, arg, rpc, history>>

DropNotify(h) ==
  /\ pc[h] = "d_notify"
  /\ rpc' = notify_one(rpc)
  /\ pc' = [pc EXCEPT ![h] = "dropped"]
  /\ UNCHANGED <<queue, senders, lock, buffer, arg, history>>

\* ---- Receiver::recv (Iterator::next is recv) ------------------------------
\* a fast path that takes the newest element of the buffer
RecvFastPopBack ==
  /\ rpc = "idle"
  /\ Len(results) < MaxRecvs
  /\ buffer # << >>
  /\ results' = Append(results, Some(buffer[Len(buffer)]))
  /\ buffer' = SubSeq(buffer, 1, Len(buffer) - 1)
  /\ UNCHANGED <<queue, senders, lock, pc, arg, rpc, called, appended, oldestAtCall>>

\* a fast path that reads the front of the buffer and leaves it there
RecvFastPeek ==
  /\ rpc = "idle"
  /\ Len(results) < MaxRecvs
  /\ pop_front(buffer) # None
  /\ results' = Append(results, pop_front(buffer))
  /\ UNCHANGED <<queue, senders, lock, buffer, pc, arg, rpc, called, appended, oldestAtCall>>

\* a fast path that goes through the mutex
RecvFastNeedsLock ==
  /\ rpc = "idle"
  /\ Len(results) < MaxRecvs
  /\ pop_front(buffer) # None
  /\ lock = Free
  /\ results' = Append(results, pop_front(buffer))
  /\ buffer' = rest(buffer)
  /\ UNCHANGED <<queue, senders, lock, pc, arg, rpc, called, appended, oldestAtCall>>

\* line 46-48: the prefetch buffer has an element; no lock is taken
RecvFast ==
  /\ rpc = "idle"
  /\ Len(results) < MaxRecvs
  /\ pop_front(buffer) # None
  /\ results' = Append(results, pop_front(buffer))
  /\ buffer' = rest(buffer)
  /\ UNCHANGED <<queue, senders, lock, pc, arg, rpc, called, appended, oldestAtCall>>

\* a recv() that goes for the lock without looking at the prefetch buffer
RecvCallAlways ==
  /\ rpc = "idle"
  /\ Len(results) < MaxRecvs
  /\ rpc' = "r_lock"
  /\ oldestAtCall' = OldestUndelivered
  /\ UNCHANGED <<queue, senders, lock, buffer, pc, arg, called, appended, results>>

\* line 46, 49: the prefetch buffer is empty; go for the lock
RecvCall ==
  /\ rpc = "idle"
  /\ Len(results) < MaxRecvs
  /\ pop_front(buffer) = None
  /\ rpc' = "r_lock"
  /\ oldestAtCall' = OldestUndelivered
  /\ UNCHANGED <<queue, senders, lock, buffer, pc, arg, called, appended, results>>

RecvLock ==
  /\ rpc = "r_lock"
  /\ lock = Free
  /\ lock' = Rx
  /\ rpc' = "r_loop"
  /\ UNCHANGED <<queue, senders, buffer, pc, arg, history>>

\* a drain that empties the queue and keeps only the element it returns
RecvTakeLoseRest ==
  /\ rpc = "r_loop"
  /\ lock = Rx
  /\ pop_front(queue) # None
  /\ queue' = << >>
  /\ results' = Append(results, pop_front(queue))
  /\ oldestAtCall' = None
  /\ lock' = Free
  /\ rpc' = "idle"
  /\ UNCHANGED <<senders, buffer, pc, arg, called, appended>>

\* line 52-55: Some(t): swap what is left of the queue with the buffer, return
RecvTake ==
  /\ rpc = "r_loop"
  /\ lock = Rx
  /\ pop_front(queue) # None
  /\ buffer' = rest(queue)
  /\ queue' = buffer
  /\ results' = Append(results, pop_front(queue))
  /\ oldestAtCall' = None
  /\ lock' = Free
  /\ rpc' = "idle"
  /\ UNCHANGED <<senders, pc, arg, called, appended>>

\* an end-of-stream test that does not look at the count
RecvEndAnySenders ==
  /\ rpc = "r_loop"
  /\ lock = Rx
  /\ pop_front(queue) = None
  /\ results' = Append(results, None)
  /\ oldestAtCall' = None
  /\ lock' = Free
  /\ rpc' = "idle"
  /\ UNCHANGED <<queue, senders, buffer, pc, arg, called, appended>>

\* line 56: None if inner.senders == 0 => return None
RecvEnd ==
  /\ rpc = "r_loop"
  /\ lock = Rx
  /\ pop_front(queue) = None
  /\ senders = 0
  /\ results' = Append(results, None)
  /\ oldestAtCall' = None
  /\ lock' = Free
  /\ rpc' = "idle"
  /\ UNCHANGED <<queue, senders, buffer, pc, arg, called, appended>>

\* a wait that blocks without releasing the mutex
RecvWaitKeepLock ==
  /\ rpc = "r_loop"
  /\ lock = Rx
  /\ pop_front(queue) = None
  /\ senders # 0
  /\ rpc' = "waiting"
  /\ UNCHANGED <<queue, senders, lock, buffer, pc, arg, history>>

\* a wait that does not look at the queue
RecvWaitAnyQueue ==
  /\ rpc = "r_loop"
  /\ lock = Rx
  /\ senders # 0
  /\ lock' = Free
  /\ rpc' = "waiting"
  /\ UNCHANGED <<queue, senders, buffer, pc, arg, history>>

\* line 57: None => wait: the mutex is released and the thread blocks, atomically
RecvWait ==
  /\ rpc = "r_loop"
  /\ lock = Rx
  /\ pop_front(queue) = None
  /\ senders # 0
  /\ lock' = Free
  /\ rpc' = "waiting"
  /\ UNCHANGED <<queue, senders, buffer, pc, arg, history>>

\* Condvar::wait may return without any notify_one
SpuriousWake ==
  /\ rpc = "waiting"
  /\ rpc' = "woken"
  /\ UNCHANGED <<queue, senders, lock, buffer, pc, arg, history>>

\* wait re-acquires the mutex before it returns; the loop runs again
RecvRelock ==
  /\ rpc = "woken"
  /\ lock = Free
  /\ lock' = Rx
  /\ rpc' = "r_loop"
  /\ UNCHANGED <<queue, senders, buffer, pc, arg, history>>

\* the Receiver goes out of scope: its buffer is dropped with it
RecvDrop ==
  /\ rpc = "idle"
  /\ rpc' = "gone"
  /\ buffer' = << >>
  /\ UNCHANGED <<queue, senders, lock, pc, arg, history>>

\* ---- the program ----------------------------------------------------------
HandleCall(h) ==
  \/ SendCall(h, NextValue)
  \/ CloneCall(h)
  \/ DropCall(h)

HandleLock(h) ==
  \/ SendLock(h)
  \/ CloneLock(h)
  \/ DropLock(h)

HandleStep(h) ==
  \/ SendPush(h)
  \/ SendNotify(h)
  \/ CloneInc(h)
  \/ CloneReturn(h)
  \/ DropDec(h)
  \/ DropNotify(h)

RecvStep ==
  \/ RecvTake
  \/ RecvEnd
  \/ RecvWait

Next ==
  \/ \E h \in Handles : HandleCall(h) \/ HandleLock(h) \/ HandleStep(h)
  \/ RecvFast
  \/ RecvCall
  \/ RecvLock
  \/ RecvStep
  \/ SpuriousWake
  \/ RecvRelock
  \/ RecvDrop

Spec == Init /\ [][Next]_vars

\* Fair scheduling: a call that has started keeps running, and a thread that
\* asks for the mutex gets it.  Starting a call is never forced, and neither
\* is a spurious wake-up.
Fairness ==
  /\ \A h \in Handles : WF_vars(HandleStep(h)) /\ SF_vars(HandleLock(h))
  /\ WF_vars(RecvStep)
  /\ SF_vars(RecvLock \/ RecvRelock)

FairSpec == Spec /\ Fairness

\* ---- test::multi_send_test ------------------------------------------------
\* main clones tx into tx2, moves tx to one thread and tx2 to another, then
\* calls recv() three times.  Each thread sends its value once and drops its
\* handle when its closure ends.  Handle 1 is tx, handle 2 is tx2.
TestValue(h) == h

TestCloned == pc[2] # "unborn"

TestMainClone ==
  \/ CloneCall(1) /\ ~TestCloned /\ pc[1] = "idle" /\ called[1] = << >>
  \/ CloneLock(1)
  \/ CloneInc(1)
  \/ CloneReturn(1)

TestThread(h) ==
  \/ TestCloned /\ called[h] = << >> /\ SendCall(h, TestValue(h))
  \/ SendLock(h)
  \/ SendPush(h)
  \/ SendNotify(h)
  \/ called[h] # << >> /\ DropCall(h)
  \/ DropLock(h)
  \/ DropDec(h)
  \/ DropNotify(h)

TestMainRecv ==
  \/ TestCloned /\ Len(results) < 3 /\ (RecvFast \/ RecvCall)
  \/ RecvLock
  \/ RecvStep
  \/ RecvRelock

NextTest ==
  \/ TestMainClone
  \/ \E h \in {1, 2} : TestThread(h)
  \/ TestMainRecv
  \/ SpuriousWake

\* every thread of the test runs its closure to the end; main runs to the asserts
TestFairness ==
  /\ SF_vars(TestMainClone)
  /\ \A h \in {1, 2} : SF_vars(TestThread(h))
  /\ SF_vars(TestMainRecv)

SpecTest == Init /\ [][NextTest]_vars /\ TestFairness

\* ==== properties ===========================================================
NoneSeen == \E i \in 1..Len(results) : results[i] = None

Returned == results' # results

OnlySender(h) == \A i \in 1..Len(appended) : appended[i][1] = h

Constructed == {h \in Handles : pc[h] # "unborn"}

Destructed == {h \in Handles : pc[h] = "dropped"}

\* a clone() that has incremented the count and not yet built its handle
ClonesReturning == {h \in Handles : pc[h] = "c_ret"}

\* a destructor that has decremented the count and not yet returned
DropsReturning == {h \in Handles : pc[h] = "d_notify"}

\* C1: when all the values pushed so far were sent through one handle, the
\* values recv() has returned are, in order, the first ones that handle passed
\* to send(), however they were split between queue and prefetch buffer.
SingleProducerOrder ==
  \A h \in Handles : OnlySender(h) => IsPrefix(Vals(results), called[h])

\* one handle sent three values; recv() returned the first, the second is in
\* the prefetch buffer and the third in the shared queue
SingleProducerOrderWitness ==
  \E h \in Handles :
    /\ OnlySender(h)
    /\ Len(called[h]) = 3
    /\ Vals(results) = <<called[h][1]>>
    /\ buffer = <<called[h][2]>>
    /\ queue = <<called[h][3]>>

\* C2: no lost wake-up.  Under fair scheduling, when the Receiver is blocked
\* in wait() and a value v is at the front of the queue, the recv() call in
\* progress returns Some(v).
NoLostWakeup ==
  \A v \in Values : \A n \in 0..(MaxRecvs - 1) :
    (rpc = "waiting" /\ pop_front(queue) = Some(v) /\ Len(results) = n)
      ~> (Len(results) > n /\ results[n + 1] = Some(v))

\* the Receiver blocked before the send, and the value has been pushed
NoLostWakeupWitness ==
  /\ rpc = "waiting"
  /\ queue # << >>
  /\ \E h \in Handles : pc[h] = "s_notify"

\* C3: wake on close.  Under fair scheduling, when the Receiver is blocked in
\* wait() with an empty queue and the count has reached 0, the recv() call in
\* progress returns None.
WakeOnClose ==
  \A n \in 0..(MaxRecvs - 1) :
    (rpc = "waiting" /\ queue = << >> /\ senders = 0 /\ Len(results) = n)
      ~> (Len(results) > n /\ results[n + 1] = None)

\* the Receiver blocked while a producer was alive, and the last one has
\* decremented the count since
WakeOnCloseWitness ==
  /\ rpc = "waiting"
  /\ queue = << >>
  /\ senders = 0
  /\ Cardinality(Constructed) = 2

\* C4 as stated: the count is the number of handles constructed minus the
\* number whose destructor has completed, in every state.
CountIsLiveHandles ==
  senders = Cardinality(Constructed) - Cardinality(Destructed)

\* C4 amended: the count is that number, plus one for each clone() between its
\* increment and the construction of its handle, minus one for each destructor
\* between its decrement and its return; so it is exactly that number whenever
\* no clone() and no destructor is at such a point.
CountIsLiveHandlesInFlight ==
  senders = Cardinality(Constructed) - Cardinality(Destructed)
              + Cardinality(ClonesReturning) - Cardinality(DropsReturning)

\* a clone has completed, one destructor has completed and another has
\* decremented but not returned
CountWitness ==
  /\ Cardinality(Constructed) = 2
  /\ Cardinality(Destructed) = 1
  /\ Cardinality(DropsReturning) = 1
  /\ senders = 0

\* C5: recv() returns None only from a state in which the Receiver holds the
\* mutex and buffer and queue are empty and the count is 0, and then every
\* value pushed has been returned; and a pass of the loop that finds the queue
\* empty and the count positive waits again without returning.
NoneOnlyWhenClosed ==
  [][ /\ (Returned /\ Last(results') = None) =>
           /\ lock = Rx
           /\ buffer = << >>
           /\ queue = << >>
           /\ senders = 0
           /\ Vals(results) = AppendedVals
      /\ (rpc = "r_loop" /\ queue = << >> /\ senders > 0 /\ rpc' # rpc) =>
           /\ rpc' = "waiting"
           /\ results' = results ]_vars

\* None was returned after values were pushed and returned
NoneOnlyWhenClosedWitness ==
  /\ NoneSeen
  /\ Len(appended) >= 2
  /\ Last(results) = None

\* C6: once recv() has returned None, every later recv() returns None, and no
\* later recv() waits on the condition or finds the mutex held.
NoneIsFinal ==
  [][ /\ (NoneSeen /\ Returned) => Last(results') = None
      /\ NoneSeen' => (rpc' \notin {"waiting", "woken"} /\ lock' \in {Free, Rx}) ]_vars

\* two recv() calls in a row returned None
NoneIsFinalWitness ==
  /\ Len(results) >= 2
  /\ results[Len(results)] = None
  /\ results[Len(results) - 1] = None

TestOutcomes == {<<Some(1), Some(2), None>>, <<Some(2), Some(1), None>>}

\* C7: in multi_send_test the three recv() calls return the two values in
\* either order and then None, and all three return.
TestEitherOrder ==
  /\ [](\E o \in TestOutcomes : IsPrefix(results, o))
  /\ <>(results \in TestOutcomes)

\* the order the test does not expect
TestEitherOrderWitness == results = <<Some(2), Some(1), None>>

\* C8: in multi_send_test the three recv() calls return Some(1), Some(2), None.
TestAssertedOrder == Len(results) = 3 => results = <<Some(1), Some(2), None>>

\* C9: the values recv() has returned are, in order, the first values pushed,
\* in the order the pushes got the mutex.
TotalOrder == IsPrefix(Vals(results), AppendedVals)

\* two handles pushed, three values in all, and all were returned
TotalOrderWitness ==
  /\ Len(appended) = 3
  /\ \E i, j \in 1..3 : appended[i][1] # appended[j][1]
  /\ Len(Vals(results)) = 3

\* C10: a recv() called while a pushed value is undelivered returns the oldest
\* undelivered value and never waits on the condition.
RoundTripNoWait ==
  [][ /\ (rpc = "idle" /\ Returned) => results' = Append(results, OldestUndelivered)
      /\ (rpc # "idle" /\ oldestAtCall # None /\ Returned) =>
           results' = Append(results, oldestAtCall)
      /\ oldestAtCall' # None => rpc' \notin {"waiting", "woken"} ]_vars

\* recv() was called with a value in the shared queue and now holds the mutex
RoundTripNoWaitWitness ==
  /\ rpc = "r_loop"
  /\ oldestAtCall # None
  /\ pop_front(queue) = oldestAtCall

\* every handle ever constructed has completed its destructor
AllDropped ==
  /\ \A h \in Handles : pc[h] \in {"unborn", "dropped"}
  /\ pc[1] = "dropped"

\* C11: close-on-drop.  Once every producer handle has been dropped and no
\* value was ever sent, recv() never enters wait() and what it returns is None.
CloseOnDrop ==
  [][ (AllDropped /\ called = [h \in Handles |-> << >>]) =>
        /\ (rpc' = "waiting" => rpc = "waiting")
        /\ (Returned => results' = Append(results, None)) ]_vars

\* the sole handle was dropped without a send, then recv() returned None
CloseOnDropWitness ==
  /\ pc = [h \in Handles |-> IF h = 1 THEN "dropped" ELSE "unborn"]
  /\ called = [h \in Handles |-> << >>]
  /\ results = <<None>>

\* a send(), clone() or destructor has been entered on h and has not returned
InCall(h) == pc[h] \notin {"unborn", "idle", "dropped"}

\* C12: under fair scheduling every send(), clone() and destructor that has
\* been entered returns, whatever the Receiver and the other handles do.
ProducerCallsReturn ==
  \A h \in Handles : InCall(h) ~> ~InCall(h)

\* one handle asks for the mutex while the other holds it and the Receiver is
\* blocked in wait()
ProducerCallsReturnWitness ==
  /\ rpc = "waiting"
  /\ \E h, g \in Handles : pc[h] = "s_lock" /\ pc[g] \in {"s_crit", "c_crit", "d_crit"}

\* the send() calls on h that have pushed: all but the one still before its push
Pushed(h) ==
  IF pc[h] \in {"s_lock", "s_crit"}
  THEN SubSeq(called[h], 1, Len(called[h]) - 1)
  ELSE called[h]

IsSuffix(s, t) ==
  Len(s) <= Len(t) /\ \A i \in 1..Len(s) : s[i] = t[Len(t) - Len(s) + i]

\* C13: send() has one outcome.  Every send() that got past its critical
\* section pushed its value exactly once, whether or not a Receiver exists;
\* once the Receiver is gone the queue holds the last values pushed and
\* nothing is delivered from it.
SendNeverFails ==
  /\ \A h \in Handles : \A i \in 1..Len(Pushed(h)) :
       Cardinality({k \in 1..Len(appended) : appended[k] = <<h, called[h][i]>>}) = 1
  /\ Len(appended) = SumLen([h \in Handles |-> Pushed(h)], Handles)
  /\ rpc = "gone" => IsSuffix(queue, AppendedVals)

\* the Receiver is gone without having received, and three sends have
\* returned with their values queued
SendNeverFailsWitness ==
  /\ rpc = "gone"
  /\ results = << >>
  /\ Len(queue) = 3
  /\ \A h \in Handles : pc[h] \notin {"s_lock", "s_crit", "s_notify"}

\* C14: closing is irreversible.  Once the count is 0 it stays 0, and no
\* handle is left on which clone() is running or could be called.
ClosedStaysClosed ==
  [][ senders = 0 =>
        /\ senders' = 0
        /\ \A h \in Handles : pc[h] \in {"unborn", "d_notify", "dropped"} ]_vars

\* the channel was closed after a clone: both handles have run their
\* destructor and recv() has seen the end of the stream
ClosedStaysClosedWitness ==
  /\ senders = 0
  /\ \A h \in Handles : pc[h] = "dropped"
  /\ NoneSeen

\* the handles on which a send() is running or can still be called
CanSend ==
  {h \in Handles : pc[h] \in {"idle", "s_lock", "s_crit", "s_notify",
                              "c_lock", "c_crit", "c_ret"}}

Sending == {h \in Handles : pc[h] \in {"s_lock", "s_crit", "s_notify"}}

\* C15: the count is at least the number of handles that are sending or can
\* still send; so no send() is before its push while the count is 0, and no
\* handle sends or can send once recv() has returned None.
CountCoversSenders ==
  /\ senders >= Cardinality(CanSend)
  /\ senders = 0 => Sending = {}
  /\ NoneSeen => CanSend = {}

\* one handle has decremented the count, the other pushes with a count of 1
CountCoversSendersWitness ==
  /\ senders = 1
  /\ Cardinality(DropsReturning) = 1
  /\ \E h \in Handles : pc[h] = "s_crit"

\* C16: the fast path.  A recv() called with a non-empty prefetch buffer can
\* return whoever holds the mutex; it returns the front of the buffer and
\* removes it, leaves queue, count and mutex as they are, and never goes for
\* the mutex.
FastPathFrame ==
  [][ (rpc = "idle" /\ buffer # << >>) =>
        /\ Len(results) < MaxRecvs => ENABLED RecvFast
        /\ Returned =>
             /\ results' = Append(results, Some(Head(buffer)))
             /\ buffer' = Tail(buffer)
             /\ UNCHANGED <<queue, senders, lock, rpc>>
        /\ rpc' \in {"idle", "gone"} ]_vars

\* the fast path returned the second value while a producer held the mutex
\* or was about to take it for the third
FastPathFrameWitness ==
  /\ lock \in Handles
  /\ pc[lock] = "s_crit"
  /\ Len(appended) = 2
  /\ results = <<Some(appended[1][2]), Some(appended[2][2])>>
  /\ queue = << >>

\* C17: batch drain.  A pass of recv()'s loop that finds q1..qm in the shared
\* queue returns q1, leaves q2..qm in the prefetch buffer and the queue empty;
\* the buffer is empty before the swap, so nothing goes back into the queue.
BatchDrain ==
  [][ (rpc = "r_loop" /\ queue # << >> /\ rpc' # rpc) =>
        /\ buffer = << >>
        /\ results' = Append(results, Some(Head(queue)))
        /\ buffer' = Tail(queue)
        /\ queue' = << >>
        /\ rpc' = "idle" ]_vars

\* one pass drained three values: the first was returned, two are buffered
BatchDrainWitness ==
  /\ Len(appended) = 3
  /\ results = <<Some(appended[1][2])>>
  /\ buffer = <<appended[2][2], appended[3][2]>>
  /\ queue = << >>

\* the queue of a channel without prefetch buffer: what the Receiver holds
\* privately, then what is shared
RefQueue == buffer \o queue

\* recv() of that channel: pop one element, or end the stream
RefRecv ==
  /\ Returned
  /\ results' = Append(results, pop_front(RefQueue))
  /\ RefQueue' = rest(RefQueue)
  /\ pop_front(RefQueue) = None => senders = 0
  /\ senders' = senders

\* send() of that channel: push the argument of a send() that holds the mutex
RefSend ==
  /\ ~Returned
  /\ \E h \in Handles : pc[h] = "s_crit" /\ lock = h /\ RefQueue' = Append(RefQueue, arg[h][1])
  /\ senders' = senders

\* clone(), the destructor, and every step that touches neither queue nor results
RefOther == ~Returned /\ RefQueue' = RefQueue

\* C18: with RefQueue as its queue, every step taken while the Receiver
\* exists is a step of the channel without prefetch buffer, so recv() returns
\* nothing that channel could not return.
RefinesPlainChannel ==
  [][ rpc' # "gone" => (RefRecv \/ RefSend \/ RefOther) ]_vars

\* the reference queue is split: one value in the buffer, a later one shared
RefinesPlainChannelWitness ==
  /\ Len(buffer) = 1
  /\ Len(queue) = 1
  /\ Len(results) = 1
  /\ rpc = "idle"

Range(s) == {s[i] : i \in 1..Len(s)}

NoRepeat(s) == \A i, j \in 1..Len(s) : s[i] = s[j] => i = j

\* C19: exactly-once delivery.  No value is returned twice, every value
\* returned was pushed, while the Receiver exists every value pushed and not
\* returned is in the prefetch buffer or the shared queue, and once recv() has
\* returned None every value pushed has been returned.
ExactlyOnce ==
  /\ NoRepeat(Vals(results))
  /\ Range(Vals(results)) \subseteq Range(AppendedVals)
  /\ rpc # "gone" => AppendedVals = Vals(results) \o buffer \o queue
  /\ NoneSeen => Range(AppendedVals) = Range(Vals(results))

\* two handles pushed a value each, both were returned, then None
ExactlyOnceWitness ==
  /\ Len(appended) = 2
  /\ appended[1][1] # appended[2][1]
  /\ results = <<Some(appended[1][2]), Some(appended[2][2]), None>>

\* nothing has happened since channel() returned
Fresh ==
  /\ pc = [h \in Handles |-> IF h = 1 THEN "idle" ELSE "unborn"]
  /\ called = [h \in Handles |-> << >>]
  /\ rpc = "idle"
  /\ results = << >>

\* C20: the count never underflows.  It is never negative, a destructor that
\* is about to decrement finds it at 1 or more, and channel() leaves it at 1
\* with an empty queue and an empty prefetch buffer.
NoUnderflow ==
  /\ senders >= 0
  /\ \A h \in Handles : pc[h] \in {"d_lock", "d_crit"} => senders >= 1
  /\ Fresh => (senders = 1 /\ queue = << >> /\ buffer = << >>)

\* after a clone, one destructor has completed and the other is about to
\* take the count from 1 to 0
NoUnderflowWitness ==
  /\ Cardinality(Destructed) = 1
  /\ \E h \in Handles : pc[h] = "d_crit"
  /\ senders = 1

====
